---- MODULE Spec2Model ----
(***************************************************************************)
(* Model of the alexa-iot hub of node-red-contrib-alexa-iot: the Hue REST  *)
(* facade (GET /api/:user/lights, GET /api/:user/lights/:id,               *)
(* PUT /api/:user/lights/:id/state) and the Alexa directive handler        *)
(* (POST /alexa) of src/nodes/alexa-iot-hub.js, together with the older    *)
(* POST /alexa handler kept in src/unnamed/part_001 and the callbacks the  *)
(* hub hands to the AlexaSmartHome library in its library-based version.   *)
(*                                                                         *)
(* Strings the code takes apart (node ids, endpoint ids, uniqueids, URL    *)
(* parameters, names) are sequences of one-character strings.  JavaScript  *)
(* values that travel in JSON bodies and events are tagged records, so     *)
(* that `undefined`, numbers, strings, booleans and objects stay distinct. *)
(***************************************************************************)
EXTENDS Integers, Sequences, FiniteSets, TLC

\* nodes: the node registry of the runtime; pc, req, res, sent: the exchange
\* being served and the events it delivered; devices: the list a discovery
\* holds across its await; seen: the registry as eachNode last walked it;
\* conns: the requests each connection has written and the server has not
\* yet dispatched; log: the deliveries made so far, in order; hub: the
\* sockets and the status of the hub node over its life; dev: one device
\* node, its configuration, its status and what it did with its last input;
\* limiter: the request counts of the rate limiter.
VARIABLES nodes, pc, req, res, sent, devices, seen, conns, log, hub, dev, limiter

vars == <<nodes, pc, req, res, sent, devices, seen, conns, log, hub, dev, limiter>>

(***************************************************************************)
(* Bounds of the model.                                                    *)
(***************************************************************************)
MaxNodes == 2
MaxRequests == 3
MaxAds == 2
MaxOpen == 2
\* The `max` of the rate limiter, 100 in the source, scaled down.
RateMax == 3

(***************************************************************************)
(* JavaScript values.                                                      *)
(***************************************************************************)
Undefined == [t |-> "undefined"]
JNull == [t |-> "null"]
Bool(b) == [t |-> "boolean", b |-> b]
Str(s) == [t |-> "string", s |-> s]
Obj(o) == [t |-> "object", o |-> o]

RECURSIVE Gcd(_, _)
Gcd(a, b) == IF b = 0 THEN a ELSE Gcd(b, a % b)

\* The number n/d, kept in lowest terms (d > 0).
Frac(n, d) ==
    LET g == Gcd(n, d)
    IN  [t |-> "number", n |-> n \div g, d |-> d \div g]

Num(n) == Frac(n, 1)

\* ToBoolean: undefined, null, false, 0, NaN and "" are falsy, every object
\* is truthy.
Truthy(v) ==
    CASE v.t = "undefined" -> FALSE
      [] v.t = "null" -> FALSE
      [] v.t = "NaN" -> FALSE
      [] v.t = "boolean" -> v.b
      [] v.t = "number" -> v.n # 0
      [] v.t = "string" -> v.s # ""
      [] OTHER -> TRUE

\* a || b
Or(a, b) == IF Truthy(a) THEN a ELSE b

\* v / k: NaN unless v is a number
NaN == [t |-> "NaN"]
Div(v, k) == IF v.t = "number" THEN Frac(v.n, v.d * k) ELSE NaN

\* Math.round(v / 254 * 100) for a number v >= 0: floor(x + 1/2)
RoundPercent(v) == Num((200 * v.n + 254 * v.d) \div (508 * v.d))

(***************************************************************************)
(* The host's node table.  RED.nodes.eachNode visits the records of        *)
(* `nodes` in order; RED.nodes.getNode(id) finds the node with that id.    *)
(***************************************************************************)
NoId == <<>>

Hub1 == <<"h", "1">>
Hub2 == <<"h", "2">>

DeviceType == "alexa-iot-device"

NodeA == [id |-> <<"a", "-", "b">>, type |-> DeviceType, hub |-> Hub1,
          endpointId |-> NoId, name |-> <<"A">>]
NodeB == [id |-> <<"a", ":", "b">>, type |-> DeviceType, hub |-> Hub1,
          endpointId |-> NoId, name |-> <<"<", "b", ">", "B">>]
NodeC == [id |-> <<"c">>, type |-> DeviceType, hub |-> Hub1,
          endpointId |-> <<"a", "-", "b">>, name |-> <<"C">>]
NodeD == [id |-> <<"1">>, type |-> DeviceType, hub |-> Hub1,
          endpointId |-> NoId, name |-> <<"D">>]
NodeE == [id |-> <<"a", ":", "b", "-", "0", "0">>, type |-> DeviceType, hub |-> Hub1,
          endpointId |-> NoId, name |-> <<"E">>]
NodeX == [id |-> <<"x">>, type |-> DeviceType, hub |-> Hub2,
          endpointId |-> NoId, name |-> <<"X">>]
NodeF == [id |-> <<"f">>, type |-> "function", hub |-> NoId,
          endpointId |-> NoId, name |-> <<"F">>]

NodePool == {NodeA, NodeB, NodeC, NodeD, NodeE, NodeX, NodeF}

\* Node tables of at most MaxNodes records with pairwise distinct ids.
Registries ==
    {r \in UNION {[1..k -> NodePool] : k \in 0..MaxNodes} :
        \A i, j \in DOMAIN r : i # j => r[i].id # r[j].id}

\* n.type === 'alexa-iot-device' && RED.nodes.getNode(n.hub) === node
BoundToHub(n) == n.type = DeviceType /\ n.hub = Hub1

\* (n.endpointId || n.id).replace(/-/g, ':') + '-00'
ReplaceDash(s) == [i \in DOMAIN s |-> IF s[i] = "-" THEN ":" ELSE s[i]]

UniqueId(n) ==
    ReplaceDash(IF n.endpointId # NoId THEN n.endpointId ELSE n.id) \o <<"-", "0", "0">>

\* The light object generateDeviceList builds for node n.
\* A variant that reports every light as switched on.
LightObject_On(n) ==
    [state |-> [on |-> TRUE, bri |-> 254, hue |-> 0, sat |-> 254,
                xy |-> <<0, 0>>, ct |-> 199, reachable |-> TRUE],
     name |-> n.name,
     uniqueid |-> UniqueId(n)]

LightObject(n) ==
    [state |-> [on |-> FALSE, bri |-> 254, hue |-> 0, sat |-> 254,
                xy |-> <<0, 0>>, ct |-> 199, reachable |-> TRUE],
     name |-> n.name,
     uniqueid |-> UniqueId(n)]

\* lights[key] = value on an object kept as a sequence of its properties in
\* insertion order: an existing key keeps its place and takes the new value.
SetProperty(obj, key, value) ==
    IF \E i \in DOMAIN obj : obj[i].key = key
    THEN [i \in DOMAIN obj |->
            IF obj[i].key = key THEN [key |-> key, value |-> value] ELSE obj[i]]
    ELSE Append(obj, [key |-> key, value |-> value])

HasProperty(obj, key) == \E i \in DOMAIN obj : obj[i].key = key

GetProperty(obj, key) == obj[CHOOSE i \in DOMAIN obj : obj[i].key = key].value

RECURSIVE DeviceListFrom(_, _, _)
DeviceListFrom(ns, i, lights) ==
    IF i > Len(ns) THEN lights
    ELSE DeviceListFrom(ns, i + 1,
            IF BoundToHub(ns[i])
            THEN SetProperty(lights, UniqueId(ns[i]), LightObject(ns[i]))
            ELSE lights)

generateDeviceList(ns) == DeviceListFrom(ns, 1, <<>>)

(***************************************************************************)
(* Requests and responses.  A handler runs to completion: it reads `req`,  *)
(* writes `res` and appends to `sent` every event it hands to a device's   *)
(* receive().  Finish ends the exchange.                                   *)
(***************************************************************************)
None == [kind |-> "none"]

Conns == {"c1", "c2"}

\* No exchange is in progress.
Quiet ==
    /\ pc = "idle"
    /\ req = None
    /\ res = None
    /\ sent = <<>>
    /\ devices = <<>>
    /\ seen = <<>>
    /\ conns = [c \in Conns |-> [queue |-> <<>>, issued |-> 0]]
    /\ log = <<>>

\* The hub is up and serves requests; the limiter lets them pass.
Serving == [phase |-> "serving"]
NoDevice == [phase |-> "none"]
Unlimited == [phase |-> "unlimited"]

Init ==
    /\ nodes \in Registries
    /\ Quiet
    /\ hub = Serving
    /\ dev = NoDevice
    /\ limiter = Unlimited

\* app.get('/api/:userId/lights')
GetLights ==
    /\ pc = "idle"
    /\ req' = [kind |-> "GET lights"]
    /\ res' = [status |-> 200, body |-> [lights |-> generateDeviceList(nodes)]]
    /\ sent' = <<>>
    /\ pc' = "responded"
    /\ UNCHANGED <<nodes, devices, seen, conns, log, hub, dev, limiter>>

\* URL parameters :deviceId tried against node table ns: every id, endpointId
\* and uniqueid in it, every index "1".."N", and an id nothing carries.
Digits == <<"1", "2", "3", "4", "5", "6", "7", "8", "9">>
IndexString(i) == <<Digits[i]>>
Ghost == <<"9", "9", "9">>

Tokens(ns) ==
    {ns[i].id : i \in DOMAIN ns}
        \cup {UniqueId(ns[i]) : i \in DOMAIN ns}
        \cup {ns[i].endpointId : i \in {j \in DOMAIN ns : ns[j].endpointId # NoId}}
        \cup {IndexString(i) : i \in DOMAIN ns}
        \cup {Ghost}

\* The eachNode loops of the Hue routes: the bound devices that deviceId names
\* by uniqueid, endpointId or id.  The loop assigns on every match, so the
\* last match in iteration order is the one that stays.
HueMatches(ns, deviceId) ==
    {i \in DOMAIN ns :
        /\ BoundToHub(ns[i])
        /\ \/ deviceId = UniqueId(ns[i])
           \/ deviceId = ns[i].endpointId
           \/ deviceId = ns[i].id}

LastOf(S) == CHOOSE i \in S : \A j \in S : j <= i

\* light of app.get('/api/:userId/lights/:deviceId'): lights[deviceId], else
\* lights[id] of the last matching node; None when there is none.
ProbeLight(ns, deviceId) ==
    LET lights == generateDeviceList(ns)
        m == HueMatches(ns, deviceId)
    IN  IF HasProperty(lights, deviceId) THEN GetProperty(lights, deviceId)
        ELSE IF m # {} THEN GetProperty(lights, UniqueId(ns[LastOf(m)]))
        ELSE None

\* app.get('/api/:userId/lights/:deviceId')
GetLight ==
    /\ pc = "idle"
    /\ \E deviceId \in Tokens(nodes) :
        LET light == ProbeLight(nodes, deviceId)
        IN  /\ req' = [kind |-> "GET light", deviceId |-> deviceId]
            /\ res' = IF light # None
                      THEN [status |-> 200, body |-> [light |-> light]]
                      ELSE [status |-> 404,
                            body |-> [error |-> "Device not found", id |-> deviceId]]
    /\ sent' = <<>>
    /\ pc' = "responded"
    /\ UNCHANGED <<nodes, devices, seen, conns, log, hub, dev, limiter>>

\* deviceNode of app.put('/api/:userId/lights/:deviceId/state'): the id of
\* the node RED.nodes.getNode(n.id) returns for the last match, NoId for null.
ControlTarget(ns, deviceId) ==
    LET m == HueMatches(ns, deviceId)
    IN  IF m = {} THEN NoId ELSE ns[LastOf(m)].id

\* HueState bodies: any subset of the keys, a missing key reads as undefined.
XY == [t |-> "array", a |-> <<3, 4>>]

HueBodies ==
    [on : {Undefined, Bool(TRUE), Bool(FALSE)},
     bri : {Undefined, Num(0), Num(128)},
     hue : {Undefined, Num(0)},
     sat : {Undefined, Num(127)},
     xy : {Undefined, XY},
     ct : {Undefined, Num(300)}]

\* HueEvent with the bri branch tried before the on branch.
HueEvent_BriFirst(body) ==
    IF body.bri # Undefined
    THEN [topic |-> Str("brightness"), payload |-> RoundPercent(body.bri)]
    ELSE IF body.on # Undefined
    THEN [topic |-> Str("power"),
          payload |-> IF Truthy(body.on) THEN Str("ON") ELSE Str("OFF")]
    ELSE [topic |-> Undefined, payload |-> Undefined]

\* HueEvent with the color branch taken when hue or sat is present.
HueEvent_HueOrSat(body) ==
    IF body.on # Undefined
    THEN [topic |-> Str("power"),
          payload |-> IF Truthy(body.on) THEN Str("ON") ELSE Str("OFF")]
    ELSE IF body.bri # Undefined
    THEN [topic |-> Str("brightness"), payload |-> RoundPercent(body.bri)]
    ELSE IF body.hue # Undefined \/ body.sat # Undefined
    THEN [topic |-> Str("color"),
          payload |-> Obj([hue |-> body.hue,
                           saturation |-> Div(body.sat, 254),
                           brightness |-> Div(Or(body.bri, Num(254)), 254)])]
    ELSE [topic |-> Undefined, payload |-> Undefined]

\* topic and payload the PUT handler derives from the body (first branch that
\* applies); both undefined when no branch applies.
HueEvent(body) ==
    IF body.on # Undefined
    THEN [topic |-> Str("power"),
          payload |-> IF Truthy(body.on) THEN Str("ON") ELSE Str("OFF")]
    ELSE IF body.bri # Undefined
    THEN [topic |-> Str("brightness"), payload |-> RoundPercent(body.bri)]
    ELSE IF body.hue # Undefined /\ body.sat # Undefined
    THEN [topic |-> Str("color"),
          payload |-> Obj([hue |-> body.hue,
                           saturation |-> Div(body.sat, 254),
                           brightness |-> Div(Or(body.bri, Num(254)), 254)])]
    ELSE IF Truthy(body.xy)
    THEN [topic |-> Str("color"),
          payload |-> Obj([xy |-> body.xy,
                           brightness |-> Div(Or(body.bri, Num(254)), 254)])]
    ELSE IF Truthy(body.ct)
    THEN [topic |-> Str("color"),
          payload |-> Obj([ct |-> body.ct,
                           brightness |-> Div(Or(body.bri, Num(254)), 254)])]
    ELSE [topic |-> Undefined, payload |-> Undefined]

\* if (topic && payload)
HueDeliverable(ev) == Truthy(ev.topic) /\ Truthy(ev.payload)

\* An exception that leaves a handler reaches the HTTP framework, which
\* answers 500 on its own.
Escaped == [status |-> 500, body |-> [escaped |-> TRUE]]

HueNotFound(deviceId) ==
    [status |-> 404,
     body |-> [arr |-> <<[error |-> [type |-> 3,
                                     address |-> [resource |-> "lights", id |-> deviceId],
                                     description |-> "Device not found"]]>>]]

HueSuccess(deviceId, ev) ==
    [status |-> 200,
     body |-> [arr |-> <<[success |-> [address |-> [resource |-> "lights", id |-> deviceId,
                                                    sub |-> "state", attr |-> ev.topic.s],
                                       value |-> ev.payload]]>>]]

HueInvalid(deviceId) ==
    [status |-> 400,
     body |-> [arr |-> <<[error |-> [type |-> 6,
                                     address |-> [resource |-> "lights", id |-> deviceId,
                                                  sub |-> "state"],
                                     description |-> "Invalid or missing parameters"]]>>]]

\* app.put('/api/:userId/lights/:deviceId/state').  sinkThrows says whether
\* the device's receive() throws when it is called.
\* What the PUT handler answers and delivers for :deviceId and body.
PutOutcome(ns, deviceId, body, sinkThrows) ==
    LET deviceNode == ControlTarget(ns, deviceId)
        ev == HueEvent(body)
    IN  IF deviceNode = NoId
        THEN [res |-> HueNotFound(deviceId), sent |-> <<>>]
        ELSE IF HueDeliverable(ev)
        THEN [res |-> IF sinkThrows THEN Escaped ELSE HueSuccess(deviceId, ev),
              sent |-> <<[node |-> deviceNode, event |-> ev]>>]
        ELSE [res |-> HueInvalid(deviceId), sent |-> <<>>]

PutState ==
    /\ pc = "idle"
    /\ \E deviceId \in Tokens(nodes), body \in HueBodies :
        LET deviceNode == ControlTarget(nodes, deviceId)
            ev == HueEvent(body)
            calls == deviceNode # NoId /\ HueDeliverable(ev)
        IN  \E sinkThrows \in IF calls THEN BOOLEAN ELSE {FALSE} :
            /\ req' = [kind |-> "PUT state", deviceId |-> deviceId, body |-> body,
                       sinkThrows |-> sinkThrows]
            /\ res' = PutOutcome(nodes, deviceId, body, sinkThrows).res
            /\ sent' = PutOutcome(nodes, deviceId, body, sinkThrows).sent
    /\ pc' = "responded"
    /\ UNCHANGED <<nodes, devices, seen, conns, log, hub, dev, limiter>>

(***************************************************************************)
(* POST /alexa.  A request body is flattened: hasDirective and hasHeader   *)
(* say whether body.directive and directive.header exist, endpointId is    *)
(* NoId when directive.endpoint or its endpointId is missing, payload is   *)
(* undefined when directive.payload is missing.                            *)
(***************************************************************************)
Power == Str("Alexa.PowerController")
Brightness == Str("Alexa.BrightnessController")
Color == Str("Alexa.ColorController")
Discovery == Str("Alexa.Discovery")

DirectivePairs ==
    {[namespace |-> Power, name |-> Str("TurnOn")],
     [namespace |-> Power, name |-> Str("TurnOff")],
     [namespace |-> Brightness, name |-> Str("SetBrightness")],
     [namespace |-> Brightness, name |-> Str("AdjustBrightness")],
     [namespace |-> Color, name |-> Str("SetColor")],
     [namespace |-> Discovery, name |-> Str("Discover")],
     [namespace |-> Power, name |-> Str("SetBrightness")],
     [namespace |-> Str("Alexa.ThermostatController"), name |-> Str("SetTargetTemperature")],
     [namespace |-> Undefined, name |-> Str("TurnOn")]}

SomeColor == Obj([hue |-> Num(350), saturation |-> Frac(7, 10), brightness |-> Num(1)])

AlexaPayloads ==
    {Undefined,
     Obj([brightness |-> Undefined, brightnessDelta |-> Undefined, color |-> Undefined]),
     Obj([brightness |-> Num(42), brightnessDelta |-> Num(-10), color |-> SomeColor])}

EndpointIds(ns) ==
    {ns[i].id : i \in DOMAIN ns}
        \cup {ns[i].endpointId : i \in DOMAIN ns}
        \cup {NoId, Hub1, Ghost}

NoDirective ==
    [hasDirective |-> FALSE, hasHeader |-> FALSE, namespace |-> Undefined,
     name |-> Undefined, messageId |-> Undefined, correlationToken |-> Undefined,
     endpointId |-> NoId, payload |-> Undefined]

AlexaBodies(ns) ==
    {NoDirective, [NoDirective EXCEPT !.hasDirective = TRUE]}
        \cup {[hasDirective |-> TRUE, hasHeader |-> TRUE,
               namespace |-> p.namespace, name |-> p.name,
               messageId |-> m, correlationToken |-> c,
               endpointId |-> e, payload |-> pl] :
                 p \in DirectivePairs, m \in {Undefined, Str("m1")},
                 c \in {Undefined, Str("c1")}, e \in EndpointIds(ns),
                 pl \in AlexaPayloads}

AlexaHeader(namespace, name, messageId, correlationToken) ==
    [namespace |-> namespace, name |-> name, payloadVersion |-> "3",
     messageId |-> messageId, correlationToken |-> correlationToken]

ErrorResponse(status, messageId, correlationToken, type, message) ==
    [status |-> status,
     body |-> [event |-> [header |-> AlexaHeader("Alexa", "ErrorResponse",
                                                 messageId, correlationToken),
                          payload |-> [type |-> type, message |-> message]]]]

\* The endpoints of the Discover.Response of alexa-iot-hub.js: one per bound
\* device in iteration order, the name as configured.
RECURSIVE DiscoverFrom(_, _)
DiscoverFrom(ns, i) ==
    IF i > Len(ns) THEN <<>>
    ELSE (IF BoundToHub(ns[i])
          THEN <<[endpointId |-> IF ns[i].endpointId # NoId
                                 THEN ns[i].endpointId ELSE ns[i].id,
                  friendlyName |-> ns[i].name]>>
          ELSE <<>>) \o DiscoverFrom(ns, i + 1)

DiscoverResponse(messageId, endpoints) ==
    [status |-> 200,
     body |-> [event |-> [header |-> AlexaHeader("Alexa.Discovery", "Discover.Response",
                                                 messageId, Undefined),
                          payload |-> [endpoints |-> endpoints]]]]

\* deviceNode of the directive handler: the last device bound to this hub
\* whose (endpointId || id) is the directive's endpointId.
AlexaMatches(ns, endpointId) ==
    {i \in DOMAIN ns :
        /\ ns[i].type = DeviceType
        /\ (IF ns[i].endpointId # NoId THEN ns[i].endpointId ELSE ns[i].id) = endpointId
        /\ ns[i].hub = Hub1}

AlexaTarget(ns, endpointId) ==
    LET m == AlexaMatches(ns, endpointId)
    IN  IF m = {} THEN NoId ELSE ns[LastOf(m)].id

\* topic and payload of a directive.  Reading a property of a missing
\* directive.payload throws a TypeError.
Mapped(topic, payload) == [outcome |-> "event", topic |-> Str(topic), payload |-> payload]
Throws == [outcome |-> "throw"]
Unsupported == [outcome |-> "unsupported"]

AlexaEvent(r) ==
    IF r.namespace = Power /\ (r.name = Str("TurnOn") \/ r.name = Str("TurnOff"))
    THEN Mapped("power", IF r.name = Str("TurnOn") THEN Str("ON") ELSE Str("OFF"))
    ELSE IF r.namespace = Brightness /\ r.name = Str("SetBrightness")
    THEN IF r.payload = Undefined THEN Throws
         ELSE Mapped("brightness", r.payload.o.brightness)
    ELSE IF r.namespace = Brightness /\ r.name = Str("AdjustBrightness")
    THEN IF r.payload = Undefined THEN Throws
         ELSE Mapped("brightness", r.payload.o.brightnessDelta)
    ELSE IF r.namespace = Color /\ r.name = Str("SetColor")
    THEN IF r.payload = Undefined THEN Throws
         ELSE Mapped("color", r.payload.o.color)
    ELSE Unsupported

\* ContextProperty with the power state hard-coded.
ContextProperty_FixedPower(namespace, payload) ==
    IF namespace = Power
    THEN [namespace |-> "Alexa.PowerController", name |-> "powerState",
          value |-> Str("ON"), uncertaintyInMilliseconds |-> 0]
    ELSE [namespace |-> "Alexa.ColorController", name |-> "color",
          value |-> payload, uncertaintyInMilliseconds |-> 0]

\* context.properties[0] of the Alexa.Response
ContextProperty(namespace, payload) ==
    IF namespace = Power
    THEN [namespace |-> "Alexa.PowerController", name |-> "powerState",
          value |-> payload, uncertaintyInMilliseconds |-> 0]
    ELSE IF namespace = Brightness
    THEN [namespace |-> "Alexa.BrightnessController", name |-> "brightness",
          value |-> payload, uncertaintyInMilliseconds |-> 0]
    ELSE [namespace |-> "Alexa.ColorController", name |-> "color",
          value |-> payload, uncertaintyInMilliseconds |-> 0]

AlexaResponse(r, property) ==
    [status |-> 200,
     body |-> [event |-> [header |-> AlexaHeader("Alexa", "Response",
                                                 r.messageId, r.correlationToken),
                          endpoint |-> [endpointId |-> r.endpointId]],
               context |-> [properties |-> <<property>>]]]

\* The catch block of the handler: it reads `directive`, a const of the try
\* block that is not in scope there, so building the 500 body throws a
\* ReferenceError and the exception leaves the handler.
CatchBlock == Escaped

\* What the handler of alexa-iot-hub.js answers and delivers for body r.
AlexaOutcome(ns, r, sinkThrows) ==
    LET deviceNode == AlexaTarget(ns, r.endpointId)
        ev == AlexaEvent(r)
    IN  IF ~r.hasDirective \/ ~r.hasHeader \/ ~Truthy(r.namespace)
        THEN [res |-> ErrorResponse(400, Or(r.messageId, Str("unknown")), Undefined,
                                    "INVALID_DIRECTIVE", "Missing or invalid directive"),
              sent |-> <<>>]
        ELSE IF r.namespace = Discovery /\ r.name = Str("Discover")
        THEN [res |-> DiscoverResponse(r.messageId, DiscoverFrom(ns, 1)), sent |-> <<>>]
        ELSE IF r.endpointId = NoId
        THEN [res |-> ErrorResponse(400, r.messageId, r.correlationToken,
                                    "INVALID_DIRECTIVE", "Missing endpointId"),
              sent |-> <<>>]
        ELSE IF deviceNode = NoId
        THEN [res |-> ErrorResponse(404, r.messageId, r.correlationToken,
                                    "ENDPOINT_UNREACHABLE", "Device not found"),
              sent |-> <<>>]
        ELSE IF ev = Unsupported
        THEN [res |-> ErrorResponse(400, r.messageId, r.correlationToken,
                                    "INVALID_DIRECTIVE", "Unsupported directive"),
              sent |-> <<>>]
        ELSE IF ev = Throws
        THEN [res |-> CatchBlock, sent |-> <<>>]
        ELSE LET msg == [topic |-> ev.topic, payload |-> ev.payload]
             IN  [res |-> IF sinkThrows THEN CatchBlock
                          ELSE AlexaResponse(r, ContextProperty(r.namespace, ev.payload)),
                  sent |-> <<[node |-> deviceNode, event |-> msg]>>]

\* app.post('/alexa') of alexa-iot-hub.js
PostAlexa ==
    /\ pc = "idle"
    /\ \E r \in AlexaBodies(nodes) :
        \E sinkThrows \in IF AlexaOutcome(nodes, r, FALSE).sent # <<>>
                          THEN BOOLEAN ELSE {FALSE} :
            LET out == AlexaOutcome(nodes, r, sinkThrows)
            IN  /\ req' = [kind |-> "POST alexa", handler |-> "alexa-iot-hub.js",
                           body |-> r, sinkThrows |-> sinkThrows]
                /\ res' = out.res
                /\ sent' = out.sent
    /\ pc' = "responded"
    /\ UNCHANGED <<nodes, devices, seen, conns, log, hub, dev, limiter>>

(***************************************************************************)
(* POST /alexa of src/unnamed/part_001, the hub without Hue emulation.     *)
(***************************************************************************)
\* sanitizeHtml(name, { allowedTags: [] }): every tag, from '<' to the next
\* '>', is dropped, the text between tags is kept and a '>' outside a tag
\* becomes the entity &gt;.
RECURSIVE StripTags(_, _)
StripTags(s, inTag) ==
    IF s = <<>> THEN <<>>
    ELSE IF inTag THEN StripTags(Tail(s), Head(s) # ">")
    ELSE IF Head(s) = "<" THEN StripTags(Tail(s), TRUE)
    ELSE IF Head(s) = ">" THEN <<"&gt;">> \o StripTags(Tail(s), FALSE)
    ELSE <<Head(s)>> \o StripTags(Tail(s), FALSE)

sanitizeHtml(s) == StripTags(s, FALSE)

\* getDevices and the endpoints built from it: the devices whose hub field is
\* this hub's id, named by their node id, the name sanitized.
RECURSIVE getDevices(_, _)
getDevices(ns, i) ==
    IF i > Len(ns) THEN <<>>
    ELSE (IF ns[i].type = DeviceType /\ ns[i].hub = Hub1
          THEN <<[endpointId |-> ns[i].id, friendlyName |-> sanitizeHtml(ns[i].name)]>>
          ELSE <<>>) \o getDevices(ns, i + 1)

\* RED.nodes.getNode(id): the live node with that id, of whatever type and
\* hub; the hub itself is a node of the host too.  NoId for null.
getNode(ns, id) ==
    IF id = Hub1 \/ \E i \in DOMAIN ns : ns[i].id = id THEN id ELSE NoId

\* msg and responseProperty of part_001: four directives are mapped.
Part001Event(r) ==
    IF r.namespace = Power /\ r.name = Str("TurnOn")
    THEN Mapped("power", Str("ON"))
    ELSE IF r.namespace = Power /\ r.name = Str("TurnOff")
    THEN Mapped("power", Str("OFF"))
    ELSE IF r.namespace = Brightness /\ r.name = Str("SetBrightness")
    THEN IF r.payload = Undefined THEN Throws
         ELSE Mapped("brightness", r.payload.o.brightness)
    ELSE IF r.namespace = Color /\ r.name = Str("SetColor")
    THEN IF r.payload = Undefined THEN Throws
         ELSE Mapped("color", r.payload.o.color)
    ELSE Unsupported

Part001Property(r) ==
    IF r.namespace = Power /\ r.name = Str("TurnOn")
    THEN [namespace |-> "Alexa.PowerController", name |-> "powerState",
          value |-> Str("ON"), uncertaintyInMilliseconds |-> 0]
    ELSE IF r.namespace = Power /\ r.name = Str("TurnOff")
    THEN [namespace |-> "Alexa.PowerController", name |-> "powerState",
          value |-> Str("OFF"), uncertaintyInMilliseconds |-> 0]
    ELSE IF r.namespace = Brightness /\ r.name = Str("SetBrightness")
    THEN [namespace |-> "Alexa.BrightnessController", name |-> "brightness",
          value |-> r.payload.o.brightness, uncertaintyInMilliseconds |-> 0]
    ELSE [namespace |-> "Alexa.ColorController", name |-> "color",
          value |-> r.payload.o.color, uncertaintyInMilliseconds |-> 0]

\* The handler of part_001 is an async function without a try block: an
\* exception rejects its promise.  The framework then either answers 500
\* itself or never answers, depending on its version.
Hung == [status |-> 0, body |-> [hung |-> TRUE]]
Rejected == {Escaped, Hung}

\* What the handler of part_001 may answer and deliver for body r.
Part001Outcomes(ns, r, sinkThrows) ==
    LET deviceNode == getNode(ns, r.endpointId)
        ev == Part001Event(r)
    IN  IF ~r.hasDirective
        THEN {[res |-> ErrorResponse(400, Str("unknown"), Undefined,
                                     "INVALID_DIRECTIVE", "Missing or invalid directive"),
               sent |-> <<>>]}
        ELSE IF ~r.hasHeader
        THEN {[res |-> x, sent |-> <<>>] : x \in Rejected}
        ELSE IF r.namespace = Discovery /\ r.name = Str("Discover")
        THEN {[res |-> DiscoverResponse(r.messageId, getDevices(ns, 1)), sent |-> <<>>]}
        ELSE IF r.endpointId = NoId
        THEN {[res |-> ErrorResponse(400, r.messageId, r.correlationToken,
                                     "ENDPOINT_UNREACHABLE", "Device not found"),
               sent |-> <<>>]}
        ELSE IF deviceNode = NoId
        THEN {[res |-> ErrorResponse(404, r.messageId, r.correlationToken,
                                     "ENDPOINT_UNREACHABLE", "Device not found"),
               sent |-> <<>>]}
        ELSE IF ev = Throws
        THEN {[res |-> x, sent |-> <<>>] : x \in Rejected}
        ELSE IF ev = Unsupported
        THEN {[res |-> ErrorResponse(400, r.messageId, r.correlationToken,
                                     "INVALID_DIRECTIVE", "Unsupported directive"),
               sent |-> <<>>]}
        ELSE LET msg == [topic |-> ev.topic, payload |-> ev.payload]
                 delivered == <<[node |-> deviceNode, event |-> msg]>>
             IN  IF sinkThrows
                 THEN {[res |-> x, sent |-> delivered] : x \in Rejected}
                 ELSE {[res |-> AlexaResponse(r, Part001Property(r)), sent |-> delivered]}

\* app.post('/alexa') of part_001
PostAlexaPart001 ==
    /\ pc = "idle"
    /\ \E r \in AlexaBodies(nodes) :
        \E sinkThrows \in IF \E o \in Part001Outcomes(nodes, r, FALSE) : o.sent # <<>>
                          THEN BOOLEAN ELSE {FALSE} :
            \E out \in Part001Outcomes(nodes, r, sinkThrows) :
                /\ req' = [kind |-> "POST alexa", handler |-> "part_001",
                           body |-> r, sinkThrows |-> sinkThrows]
                /\ res' = out.res
                /\ sent' = out.sent
    /\ pc' = "responded"
    /\ UNCHANGED <<nodes, devices, seen, conns, log, hub, dev, limiter>>

(***************************************************************************)
(* The library-based hub (alexa-iot-hub.js:713-830, alexa-iot-hub.mjs):    *)
(* the AlexaSmartHome library owns the HTTP exchange and calls             *)
(* discoveryCallback and directiveCallback.  `res` records what a callback *)
(* returns or passes to sendResponse.                                      *)
(***************************************************************************)
\* discoveryCallback
DiscoveryCallback ==
    /\ pc = "idle"
    /\ req' = [kind |-> "discoveryCallback"]
    /\ res' = [returned |-> [endpoints |-> getDevices(nodes, 1)]]
    /\ sent' = <<>>
    /\ pc' = "responded"
    /\ UNCHANGED <<nodes, devices, seen, conns, log, hub, dev, limiter>>

\* msg of directiveCallback: it starts as {topic: '', payload: null} and a
\* directive that matches none of the four branches leaves it so.
CallbackEvent(r) ==
    IF r.namespace = Power /\ r.name = Str("TurnOn")
    THEN Mapped("power", Str("ON"))
    ELSE IF r.namespace = Power /\ r.name = Str("TurnOff")
    THEN Mapped("power", Str("OFF"))
    ELSE IF r.namespace = Brightness /\ r.name = Str("SetBrightness")
    THEN IF r.payload = Undefined THEN Throws
         ELSE Mapped("brightness", r.payload.o.brightness)
    ELSE IF r.namespace = Color /\ r.name = Str("SetColor")
    THEN IF r.payload = Undefined THEN Throws
         ELSE Mapped("color", r.payload.o.color)
    ELSE Mapped("", JNull)

\* The promise of the async callback rejected.
CallbackRejected == [rejected |-> TRUE]

SendResponse(error, result) == [sendResponse |-> [error |-> error, result |-> result]]

\* The directives the library hands over: endpointId, namespace, name, payload.
CallbackDirectives(ns) ==
    {r \in AlexaBodies(ns) :
        /\ r.hasHeader
        /\ r.messageId = Undefined
        /\ r.correlationToken = Undefined}

\* directiveCallback
DirectiveCallback ==
    /\ pc = "idle"
    /\ \E r \in CallbackDirectives(nodes) :
        LET deviceNode == getNode(nodes, r.endpointId)
            ev == CallbackEvent(r)
            calls == deviceNode # NoId /\ ev # Throws
        IN  \E sinkThrows \in IF calls THEN BOOLEAN ELSE {FALSE} :
            /\ req' = [kind |-> "directiveCallback", body |-> r,
                       sinkThrows |-> sinkThrows]
            /\ IF deviceNode = NoId
               THEN /\ res' = SendResponse(Str("Device not found"), Undefined)
                    /\ sent' = <<>>
               ELSE IF ev = Throws
               THEN /\ res' = CallbackRejected
                    /\ sent' = <<>>
               ELSE /\ sent' = <<[node |-> deviceNode,
                                  event |-> [topic |-> ev.topic, payload |-> ev.payload]]>>
                    /\ res' = IF sinkThrows THEN CallbackRejected
                              ELSE SendResponse(JNull, Obj([state |-> ev.payload]))
    /\ pc' = "responded"
    /\ UNCHANGED <<nodes, devices, seen, conns, log, hub, dev, limiter>>

(***************************************************************************)
(* GET /api/<segment>.  Express tries the routes in the order they were    *)
(* registered and runs the first whose path matches; a :param matches any  *)
(* one segment.                                                            *)
(***************************************************************************)
\* The one-segment GET routes under /api, in registration order.
ApiRoutes ==
    <<[param |-> FALSE, segment |-> "description.xml", handler |-> "/api/description.xml"],
      [param |-> TRUE, segment |-> "userId", handler |-> "/api/:userId"],
      [param |-> FALSE, segment |-> "config", handler |-> "/api/config"]>>

RouteMatches(route, segment) == route.param \/ route.segment = segment

\* The handler Express runs for GET /api/<segment>.
RouteFor(segment) ==
    LET matching == {k \in DOMAIN ApiRoutes : RouteMatches(ApiRoutes[k], segment)}
    IN  ApiRoutes[CHOOSE k \in matching : \A j \in matching : k <= j].handler

\* The bridge-config object, with the whitelist entry of `user`.
BridgeConfig(user) ==
    [name |-> "Philips hue", bridgeid |-> Hub1, ipaddress |-> "localIp",
     whitelist |-> user]

\* The full-state document of /api/:userId and /api/description.xml.
FullState(ns, user) ==
    [lights |-> generateDeviceList(ns), groups |-> <<>>, config |-> BridgeConfig(user)]

ApiSegments == {"config", "description.xml", "u"}

\* app.get('/api/description.xml'), app.get('/api/:userId'), app.get('/api/config')
GetApi ==
    /\ pc = "idle"
    /\ \E segment \in ApiSegments :
        LET handler == RouteFor(segment)
        IN  /\ req' = [kind |-> "GET api", segment |-> segment, handler |-> handler]
            /\ res' = [status |-> 200,
                       body |-> IF handler = "/api/config"
                                THEN BridgeConfig("description.xml")
                                ELSE IF handler = "/api/:userId"
                                THEN FullState(nodes, segment)
                                ELSE FullState(nodes, "description.xml")]
    /\ sent' = <<>>
    /\ pc' = "responded"
    /\ UNCHANGED <<nodes, devices, seen, conns, log, hub, dev, limiter>>

\* The response has been written; the server waits for the next request.
Finish ==
    /\ pc = "responded"
    /\ pc' = "idle"
    /\ req' = None
    /\ res' = None
    /\ sent' = <<>>
    /\ devices' = <<>>
    /\ seen' = <<>>
    /\ UNCHANGED <<nodes, conns, log, hub, dev, limiter>>

Next ==
    \/ GetLights
    \/ GetLight
    \/ PutState
    \/ PostAlexa
    \/ PostAlexaPart001
    \/ DiscoveryCallback
    \/ DirectiveCallback
    \/ GetApi
    \/ Finish

Spec == Init /\ [][Next]_vars

(***************************************************************************)
(* Discovery while the flow is being edited.  The runtime creates and      *)
(* closes device nodes between the turns of the event loop; a handler runs *)
(* without interruption up to its first await.  The Discover branch of     *)
(* alexa-iot-hub.js has no await; that of part_001 awaits getDevices(RED)  *)
(* once, after getDevices has walked the registry.                         *)
(***************************************************************************)
\* AlexaIOTDeviceNode(config): the runtime adds a node to the flow.
AddNode ==
    /\ \E n \in NodePool :
        /\ Append(nodes, n) \in Registries
        /\ nodes' = Append(nodes, n)
    /\ UNCHANGED <<pc, req, res, sent, devices, seen, conns, log, hub, dev, limiter>>

\* node.on('close'): the runtime removes a node from the flow.
RemoveNode ==
    /\ \E i \in DOMAIN nodes :
        nodes' = SubSeq(nodes, 1, i - 1) \o SubSeq(nodes, i + 1, Len(nodes))
    /\ UNCHANGED <<pc, req, res, sent, devices, seen, conns, log, hub, dev, limiter>>

\* The Discover directives of AlexaBodies.
DiscoverBodies(ns) ==
    {r \in AlexaBodies(ns) :
        /\ r.hasHeader
        /\ r.namespace = Discovery
        /\ r.name = Str("Discover")
        /\ r.correlationToken = Undefined
        /\ r.endpointId = NoId
        /\ r.payload = Undefined}

\* app.post('/alexa') of alexa-iot-hub.js serving a Discover directive.
DiscoverHub ==
    /\ pc = "idle"
    /\ \E r \in DiscoverBodies(nodes) :
        /\ req' = [kind |-> "POST alexa", handler |-> "alexa-iot-hub.js",
                   body |-> r, sinkThrows |-> FALSE]
        /\ res' = AlexaOutcome(nodes, r, FALSE).res
    /\ sent' = <<>>
    /\ seen' = nodes
    /\ pc' = "responded"
    /\ UNCHANGED <<nodes, devices, conns, log, hub, dev, limiter>>

\* app.post('/alexa') of part_001 serving a Discover directive, up to the
\* await: getDevices has run and its promise is pending.
DiscoverPart001Await ==
    /\ pc = "idle"
    /\ \E r \in DiscoverBodies(nodes) :
        req' = [kind |-> "POST alexa", handler |-> "part_001",
                body |-> r, sinkThrows |-> FALSE]
    /\ devices' = getDevices(nodes, 1)
    /\ seen' = nodes
    /\ pc' = "awaiting"
    /\ UNCHANGED <<nodes, res, sent, conns, log, hub, dev, limiter>>

\* A variant that walks the registry again after the await.
DiscoverPart001Respond_Reread ==
    /\ pc = "awaiting"
    /\ res' = DiscoverResponse(req.body.messageId, getDevices(nodes, 1))
    /\ sent' = <<>>
    /\ pc' = "responded"
    /\ UNCHANGED <<nodes, req, devices, seen, conns, log, hub, dev, limiter>>

\* The same handler after the await: it answers with the list it holds.
DiscoverPart001Respond ==
    /\ pc = "awaiting"
    /\ res' = DiscoverResponse(req.body.messageId, devices)
    /\ sent' = <<>>
    /\ pc' = "responded"
    /\ UNCHANGED <<nodes, req, devices, seen, conns, log, hub, dev, limiter>>

NextDiscovery ==
    \/ AddNode
    \/ RemoveNode
    \/ DiscoverHub
    \/ DiscoverPart001Await
    \/ DiscoverPart001Respond
    \/ Finish

SpecDiscovery == Init /\ [][NextDiscovery]_vars

(***************************************************************************)
(* Control requests on connections.  A client writes requests on its       *)
(* connection; the HTTP server dispatches the requests of one connection   *)
(* one at a time, in the order they were written, and takes connections in *)
(* any order.  The control paths of the handlers have no await: the        *)
(* handler has called deviceNode.receive() when it returns.                *)
(***************************************************************************)
OnTrue == [on |-> Bool(TRUE), bri |-> Undefined, hue |-> Undefined,
           sat |-> Undefined, xy |-> Undefined, ct |-> Undefined]

\* TurnOn sent to POST /alexa of alexa-iot-hub.js, TurnOff sent to that of
\* part_001, addressed to a node by its id.
PowerRequests(ns, h) ==
    {[kind |-> "POST alexa", handler |-> h, body |-> r, sinkThrows |-> FALSE] :
        r \in {[hasDirective |-> TRUE, hasHeader |-> TRUE, namespace |-> Power,
                name |-> Str(IF h = "part_001" THEN "TurnOff" ELSE "TurnOn"),
                messageId |-> Undefined, correlationToken |-> Undefined,
                endpointId |-> ns[i].id, payload |-> Undefined] : i \in DOMAIN ns}}

\* The control requests clients send in this scenario: power on and off over
\* the Hue facade, by index or by a number that names no light, and TurnOn
\* / TurnOff over either POST /alexa handler.
ControlRequests(ns) ==
    {[kind |-> "PUT state", deviceId |-> d, body |-> b, sinkThrows |-> FALSE] :
        d \in {IndexString(i) : i \in DOMAIN ns} \cup {Ghost},
        b \in {OnTrue, [OnTrue EXCEPT !.on = Bool(FALSE)]}}
    \cup
    UNION {PowerRequests(ns, h) : h \in {"alexa-iot-hub.js", "part_001"}}

\* What the handler of request rq may answer and deliver.
Outcomes(ns, rq) ==
    IF rq.kind = "PUT state"
    THEN {PutOutcome(ns, rq.deviceId, rq.body, rq.sinkThrows)}
    ELSE IF rq.handler = "part_001"
    THEN Part001Outcomes(ns, rq.body, rq.sinkThrows)
    ELSE {AlexaOutcome(ns, rq.body, rq.sinkThrows)}

\* A client writes its next request on connection c.
Issue(c) ==
    /\ conns["c1"].issued + conns["c2"].issued < MaxRequests
    /\ \E rq \in ControlRequests(nodes) :
        conns' = [conns EXCEPT ![c] =
                    [queue |-> Append(@.queue, [seq |-> @.issued + 1, req |-> rq]),
                     issued |-> @.issued + 1]]
    /\ UNCHANGED <<nodes, pc, req, res, sent, devices, seen, log, hub, dev, limiter>>

\* A variant in which the device sees the newest delivery first.
Deliver_Front(c, seq, events) ==
    [k \in 1..Len(events) |->
        [conn |-> c, seq |-> seq, node |-> events[k].node, event |-> events[k].event]]
        \o log

\* deviceNode.receive(msg): the device's input handler runs with msg, after
\* every message delivered before.
Deliver(c, seq, events) ==
    log \o [k \in 1..Len(events) |->
                [conn |-> c, seq |-> seq, node |-> events[k].node,
                 event |-> events[k].event]]

\* The server dispatches the oldest pending request of connection c and its
\* handler runs to its end.
Serve(c) ==
    /\ pc = "idle"
    /\ conns[c].queue # <<>>
    /\ LET next == Head(conns[c].queue)
       IN  \E out \in Outcomes(nodes, next.req) :
            /\ req' = next.req
            /\ res' = out.res
            /\ sent' = out.sent
            /\ log' = Deliver(c, next.seq, out.sent)
    /\ conns' = [conns EXCEPT ![c].queue = Tail(@)]
    /\ pc' = "responded"
    /\ UNCHANGED <<nodes, devices, seen, hub, dev, limiter>>

InitOrder ==
    /\ Init
    /\ nodes \in {<<NodeD>>, <<NodeX, NodeD>>}

NextOrder ==
    \/ \E c \in Conns : Issue(c)
    \/ \E c \in Conns : Serve(c)
    \/ Finish

SpecOrder == InitOrder /\ [][NextOrder]_vars

(***************************************************************************)
(* Reading the lights after controlling them: one client sends control     *)
(* requests and reads the light list and single lights in between.         *)
(***************************************************************************)
NextFrame ==
    \/ Issue("c1")
    \/ Serve("c1")
    \/ GetLights
    \/ GetLight
    \/ Finish

SpecFrame == InitOrder /\ [][NextFrame]_vars

(***************************************************************************)
(* The device node: AlexaIOTDeviceNode of src/nodes/alexa-iot-device.js    *)
(* (lines 10-115) and of src/unnamed/part_000.  The runtime constructs the *)
(* node from its configuration, hands it input messages through the        *)
(* handler it registered, if any, and closes it.                           *)
(***************************************************************************)
TargetId == <<"t">>

\* RED.nodes.getNode(id).type for the nodes deployed beside the device: the
\* hub, a function node and the target; "" when getNode finds no node.
DeployedType(id) ==
    IF id = Hub1 THEN "alexa-iot-hub"
    ELSE IF id = NodeF.id THEN "function"
    ELSE IF id = TargetId THEN "debug"
    ELSE ""

NoStatus == [fill |-> "none", text |-> ""]
Red(text) == [fill |-> "red", text |-> text]
Green(text) == [fill |-> "green", text |-> text]

DeviceVariants == {"alexa-iot-device.js", "part_000"}

\* The configurations a flow can give a device; part_000 has no topic field.
DeviceConfigs(variant) ==
    {[name |-> n, hub |-> h, targetNode |-> t, topic |-> tp] :
        n \in {"", "D"},
        h \in {NoId, Hub1, Ghost, NodeF.id},
        t \in {NoId, TargetId, Ghost},
        tp \in IF variant = "part_000" THEN {""} ELSE {"", "custom"}}

\* A variant that accepts any deployed node as the hub.
validateHub_AnyType(config) ==
    IF config.hub = NoId THEN [ok |-> FALSE, status |-> Red("missing hub config")]
    ELSE IF DeployedType(config.hub) = "" THEN [ok |-> FALSE, status |-> Red("no hub")]
    ELSE [ok |-> TRUE, status |-> Green("linked to hub")]

\* validateHub() of alexa-iot-device.js: its result and the status it sets.
validateHub(config) ==
    IF config.hub = NoId THEN [ok |-> FALSE, status |-> Red("missing hub config")]
    ELSE IF DeployedType(config.hub) = "" THEN [ok |-> FALSE, status |-> Red("no hub")]
    ELSE IF DeployedType(config.hub) # "alexa-iot-hub"
    THEN [ok |-> FALSE, status |-> Red("invalid hub")]
    ELSE [ok |-> TRUE, status |-> Green("linked to hub")]

\* The checks of the constructor of part_000.
ValidatePart000(config) ==
    IF config.name = "" \/ config.hub = NoId
    THEN [ok |-> FALSE, status |-> Red("missing config")]
    ELSE IF DeployedType(config.hub) = "" THEN [ok |-> FALSE, status |-> Red("no hub")]
    ELSE IF DeployedType(config.hub) # "alexa-iot-hub"
    THEN [ok |-> FALSE, status |-> Red("invalid hub")]
    ELSE [ok |-> TRUE, status |-> Green("connected to hub")]

NoMsg == [topic |-> "", payload |-> Undefined]

NewDevice(variant, config) ==
    [phase |-> "new", variant |-> variant, config |-> config, status |-> NoStatus,
     handler |-> FALSE, received |-> FALSE, msg |-> NoMsg,
     sendThrows |-> FALSE, receiveThrows |-> FALSE,
     done |-> 0, output |-> <<>>, forwarded |-> <<>>]

InitDevice ==
    /\ nodes = <<>>
    /\ Quiet
    /\ hub = Serving
    /\ limiter = Unlimited
    /\ \E variant \in DeviceVariants :
        \E config \in DeviceConfigs(variant) : dev = NewDevice(variant, config)

\* AlexaIOTDeviceNode(config): the constructor sets the status and registers
\* the input handler unless it returns early.
Construct ==
    /\ dev.phase = "new"
    /\ LET c == dev.config
       IN  dev' = IF dev.variant = "part_000"
                  THEN [dev EXCEPT !.phase = "ready",
                                   !.status = ValidatePart000(c).status,
                                   !.handler = ValidatePart000(c).ok]
                  ELSE IF c.name = ""
                  THEN [dev EXCEPT !.phase = "ready", !.status = Red("missing name")]
                  ELSE [dev EXCEPT !.phase = "ready",
                                   !.status = validateHub(c).status,
                                   !.handler = TRUE]
    /\ UNCHANGED <<nodes, pc, req, res, sent, devices, seen, conns, log, hub, limiter>>

\* Number(payload)
ToNumber(v) ==
    CASE v.t = "number" -> v
      [] v.t = "boolean" -> Num(IF v.b THEN 1 ELSE 0)
      [] v.t = "null" -> Num(0)
      [] OTHER -> NaN

\* Math.max(0, Math.min(100, x))
Clamp(x) ==
    IF x = NaN THEN NaN
    ELSE IF x.n < 0 THEN Num(0)
    ELSE IF x.n > 100 * x.d THEN Num(100)
    ELSE x

SupportedTopics == {"power", "brightness", "color"}

\* The payload the handler writes into the output message.
OutputPayload(msg) ==
    IF msg.topic = "power"
    THEN (IF msg.payload = Bool(TRUE) \/ msg.payload = Str("ON")
          THEN Str("ON") ELSE Str("OFF"))
    ELSE IF msg.topic = "brightness" THEN Clamp(ToNumber(msg.payload))
    ELSE msg.payload

\* The output message: alexa-iot-device.js sets topic, payload and device,
\* part_000 copies msg and replaces the payload.
OutputMessage(d, msg) ==
    IF d.variant = "part_000"
    THEN [topic |-> msg.topic, payload |-> OutputPayload(msg)]
    ELSE [topic |-> IF d.config.topic # "" THEN d.config.topic ELSE msg.topic,
          payload |-> OutputPayload(msg),
          device |-> d.config.name]

\* A variant whose catch block does not complete the message.
CatchInput_Silent(d) == [d EXCEPT !.status = Red("error")]

\* The catch block of the input handler: status red and done(err).
CatchInput(d) == [d EXCEPT !.status = Red("error"), !.done = @ + 1]

\* done()
Done(d) == [d EXCEPT !.done = @ + 1]

\* send(output) and the forwarding to the target node, to the end of the try
\* block.
SendAndForward(d, out) ==
    IF d.sendThrows THEN CatchInput(d)
    ELSE LET sentOut == [d EXCEPT !.output = Append(@, out)]
         IN  IF out.payload # JNull /\ d.config.targetNode # NoId
                /\ DeployedType(d.config.targetNode) # ""
             THEN LET fwd == [sentOut EXCEPT !.forwarded = Append(@, out)]
                  IN  IF d.receiveThrows THEN CatchInput(fwd) ELSE Done(fwd)
             ELSE Done(sentOut)

\* The input handler, for a device d that holds the message and the
\* failures of this run.
HandleInput(d) ==
    IF d.variant = "part_000"
    THEN IF d.msg.topic \notin SupportedTopics THEN Done(d)
         ELSE SendAndForward(d, OutputMessage(d, d.msg))
    ELSE LET v == validateHub(d.config)
             checked == [d EXCEPT !.status = v.status]
         IN  IF ~v.ok THEN Done(checked)
             ELSE IF d.msg.topic \notin SupportedTopics /\ d.config.topic = ""
             THEN Done(checked)
             ELSE SendAndForward([checked EXCEPT !.status = Green("timestamp")],
                                 OutputMessage(d, d.msg))

DeviceMessages ==
    {[topic |-> t, payload |-> p] :
        t \in SupportedTopics \cup {"other"},
        p \in {Bool(TRUE), Str("ON"), Str("OFF"), Num(150), Num(42), JNull}}

\* The runtime delivers a message to the node: node.on('input') runs if the
\* constructor registered it.
Input ==
    /\ dev.phase = "ready"
    /\ \E msg \in DeviceMessages, sendThrows \in BOOLEAN, receiveThrows \in BOOLEAN :
        LET arrived == [dev EXCEPT !.received = TRUE, !.msg = msg,
                                   !.sendThrows = sendThrows,
                                   !.receiveThrows = receiveThrows,
                                   !.done = 0, !.output = <<>>, !.forwarded = <<>>]
        IN  dev' = IF dev.handler THEN HandleInput(arrived) ELSE arrived
    /\ UNCHANGED <<nodes, pc, req, res, sent, devices, seen, conns, log, hub, limiter>>

\* node.on('close')
CloseDevice ==
    /\ dev.phase = "ready"
    /\ dev' = [dev EXCEPT !.phase = "closed", !.status = NoStatus]
    /\ UNCHANGED <<nodes, pc, req, res, sent, devices, seen, conns, log, hub, limiter>>

NextDevice ==
    \/ Construct
    \/ Input
    \/ CloseDevice

SpecDevice == InitDevice /\ [][NextDevice]_vars

(***************************************************************************)
(* The life of the hub node: construction, the binding of its sockets,     *)
(* SSDP advertisements, connections, and close.  Four hub constructors     *)
(* are kept in the repository: the Hue-emulating hub ("hue",               *)
(* alexa-iot-hub.js:15-704), the hub with SSDP only ("ssdp",               *)
(* alexa-iot-hub.js:846-1149), the library-based hub ("library",           *)
(* alexa-iot-hub.js:718-827, alexa-iot-hub.mjs) and part_001.              *)
(*                                                                         *)
(* app.listen() and ssdp.start() return before the sockets are bound.  A   *)
(* bind that fails (port in use, permission denied) is reported by an      *)
(* 'error' event: on the HTTP server, which has no listener for it in any  *)
(* constructor, the event is rethrown as an uncaught exception; on the     *)
(* SSDP sockets the SSDP server only logs it.  Only a call that throws     *)
(* (a port out of range) reaches a catch block.                            *)
(***************************************************************************)
HubVariants == {"hue", "ssdp", "library", "part_001"}

NewHub(variant) ==
    [phase |-> "new", variant |-> variant, tcp |-> "none", ssdp |-> "none",
     status |-> NoStatus, closeHandler |-> FALSE, closedSignalled |-> FALSE,
     ads |-> 0, replies |-> 0, open |-> 0]

InitLifecycle ==
    /\ nodes = <<>>
    /\ Quiet
    /\ dev = NoDevice
    /\ limiter = Unlimited
    /\ \E variant \in HubVariants : hub = NewHub(variant)

\* The SSDP server after the constructor has set it up: "hue" creates it and
\* never starts it, "ssdp" starts it inside try/catch, the others have none.
SsdpAfterConstruct(variant, startThrows) ==
    IF variant = "hue" THEN "idle"
    ELSE IF variant = "ssdp" THEN (IF startThrows THEN "failed" ELSE "binding")
    ELSE "none"

\* app.listen(port, callback) and what follows it in the constructor: a
\* throw ends the constructor before the close handler is registered, with
\* a red status where the call is inside try/catch.
AfterListen(h, listenThrows) ==
    IF listenThrows
    THEN [h EXCEPT !.phase = "closed", !.tcp = "failed",
                   !.status = IF h.variant = "library" THEN NoStatus ELSE Red("error")]
    ELSE [h EXCEPT !.phase = "up", !.tcp = "binding", !.closeHandler = TRUE]

\* AlexaIotHubNode(config)
ConstructHub ==
    /\ hub.phase = "new"
    /\ \E startThrows \in IF hub.variant = "ssdp" THEN BOOLEAN ELSE {FALSE},
          listenThrows \in BOOLEAN :
        hub' = AfterListen([hub EXCEPT !.ssdp = SsdpAfterConstruct(hub.variant, startThrows)],
                           listenThrows)
    /\ UNCHANGED <<nodes, pc, req, res, sent, devices, seen, conns, log, dev, limiter>>

\* The status the callback of app.listen sets.
ListeningStatus(variant) ==
    IF variant = "library" THEN NoStatus ELSE Green("listening")

\* The HTTP server is bound: the callback of app.listen runs.
Listening ==
    /\ hub.phase = "up"
    /\ hub.tcp = "binding"
    /\ hub' = [hub EXCEPT !.tcp = "bound", !.status = ListeningStatus(hub.variant)]
    /\ UNCHANGED <<nodes, pc, req, res, sent, devices, seen, conns, log, dev, limiter>>

\* The bind of the HTTP server fails: 'error' is emitted on a server without
\* a listener for it and ends the process as an uncaught exception.
BindError ==
    /\ hub.phase = "up"
    /\ hub.tcp = "binding"
    /\ hub' = [hub EXCEPT !.tcp = "failed", !.phase = "crashed"]
    /\ UNCHANGED <<nodes, pc, req, res, sent, devices, seen, conns, log, dev, limiter>>

\* The SSDP sockets are bound.
SsdpBound ==
    /\ hub.phase = "up"
    /\ hub.ssdp = "binding"
    /\ hub' = [hub EXCEPT !.ssdp = "bound"]
    /\ UNCHANGED <<nodes, pc, req, res, sent, devices, seen, conns, log, dev, limiter>>

\* The bind of the SSDP sockets fails; the SSDP server logs the error.
SsdpBindError ==
    /\ hub.phase = "up"
    /\ hub.ssdp = "binding"
    /\ hub' = [hub EXCEPT !.ssdp = "failed"]
    /\ UNCHANGED <<nodes, pc, req, res, sent, devices, seen, conns, log, dev, limiter>>

\* The adInterval timer of a started SSDP server: one round of ssdp:alive.
Advertise ==
    /\ hub.phase = "up"
    /\ hub.ssdp = "bound"
    /\ hub.ads < MaxAds
    /\ hub' = [hub EXCEPT !.ads = @ + 1]
    /\ UNCHANGED <<nodes, pc, req, res, sent, devices, seen, conns, log, dev, limiter>>

\* A started SSDP server answers an M-SEARCH.
Reply ==
    /\ hub.phase = "up"
    /\ hub.ssdp = "bound"
    /\ hub.replies < MaxAds
    /\ hub' = [hub EXCEPT !.replies = @ + 1]
    /\ UNCHANGED <<nodes, pc, req, res, sent, devices, seen, conns, log, dev, limiter>>

\* A client connects to the listening server.
Accept ==
    /\ hub.tcp = "bound"
    /\ hub.open < MaxOpen
    /\ hub' = [hub EXCEPT !.open = @ + 1]
    /\ UNCHANGED <<nodes, pc, req, res, sent, devices, seen, conns, log, dev, limiter>>

\* A client ends its connection.
Disconnect ==
    /\ hub.phase # "crashed"
    /\ hub.open > 0
    /\ hub' = [hub EXCEPT !.open = @ - 1]
    /\ UNCHANGED <<nodes, pc, req, res, sent, devices, seen, conns, log, dev, limiter>>

\* node.on('close') of "hue" and "ssdp": a handler without done, complete
\* when it returns.
CloseSync(h) ==
    [h EXCEPT !.tcp = "closing",
              !.ssdp = IF @ \in {"binding", "bound"} THEN "stopped" ELSE @,
              !.status = NoStatus,
              !.phase = "closed",
              !.closedSignalled = TRUE]

\* node.on('close') of "library" and part_001 up to its await.
CloseAsync(h) == [h EXCEPT !.tcp = "closing", !.phase = "closing"]

\* The runtime closes the node.
CloseHub ==
    /\ hub.phase = "up"
    /\ hub.closeHandler
    /\ hub.tcp = "bound"
    /\ hub' = IF hub.variant \in {"hue", "ssdp"} THEN CloseSync(hub) ELSE CloseAsync(hub)
    /\ UNCHANGED <<nodes, pc, req, res, sent, devices, seen, conns, log, dev, limiter>>

\* The HTTP server has closed: its last connection has ended.  The async
\* close handlers resume here, log 'Alexa IOT Hub closed' and call done().
ServerClosed ==
    /\ hub.tcp = "closing"
    /\ hub.open = 0
    /\ hub' = IF hub.phase = "closing"
              THEN [hub EXCEPT !.tcp = "closed", !.phase = "closed",
                               !.status = NoStatus, !.closedSignalled = TRUE]
              ELSE [hub EXCEPT !.tcp = "closed"]
    /\ UNCHANGED <<nodes, pc, req, res, sent, devices, seen, conns, log, dev, limiter>>

NextLifecycle ==
    \/ ConstructHub
    \/ Listening
    \/ BindError
    \/ SsdpBound
    \/ SsdpBindError
    \/ Advertise
    \/ Reply
    \/ Accept
    \/ Disconnect
    \/ CloseHub
    \/ ServerClosed

SpecLifecycle == InitLifecycle /\ [][NextLifecycle]_vars

\* The timers and the operating system act: a pending bind ends, a started
\* SSDP server advertises, a closing server with no connection closes.
SpecLifecycleFair ==
    /\ SpecLifecycle
    /\ WF_vars(ConstructHub)
    /\ WF_vars(Listening \/ BindError)
    /\ WF_vars(SsdpBound \/ SsdpBindError)
    /\ WF_vars(Advertise)
    /\ WF_vars(ServerClosed)

(***************************************************************************)
(* The middleware every request passes before it reaches a route.          *)
(* alexa-iot-hub.js installs helmet, express.json and then rateLimit;      *)
(* part_001 installs helmet, rateLimit and then express.json.  The limiter *)
(* counts the requests that reach it, per client IP, in a fixed window,    *)
(* and answers 429 once the count of the window exceeds max.  express.json *)
(* answers 400 to a body it cannot parse and passes nothing on.            *)
(***************************************************************************)
ClientIps == {"ip1", "ip2"}
HttpRoutes == {"hue", "description.xml", "alexa"}
LimiterVariants == {"alexa-iot-hub.js", "part_001"}

NoRequest == [ip |-> "", route |-> "", outcome |-> "none"]

\* arrived: the requests of the IP in its window; hits: those the limiter
\* counted; served: those that reached a route.
NewLimiter(variant) ==
    [phase |-> "counting", variant |-> variant,
     arrived |-> [ip \in ClientIps |-> 0],
     hits |-> [ip \in ClientIps |-> 0],
     served |-> [ip \in ClientIps |-> 0],
     last |-> NoRequest]

InitRate ==
    /\ nodes = <<>>
    /\ Quiet
    /\ hub = Serving
    /\ dev = NoDevice
    /\ \E variant \in LimiterVariants : limiter = NewLimiter(variant)

\* rateLimit({ windowMs, max }): the request is over the limit.
Limited(count) == count > RateMax

\* What the middleware chain does with a request: whether the limiter
\* counts it, and how it ends.
Middleware(variant, hits, bodyOk) ==
    IF variant = "part_001"
    THEN [counted |-> TRUE,
          outcome |-> IF Limited(hits + 1) THEN "limited"
                      ELSE IF bodyOk THEN "served" ELSE "parse-error"]
    ELSE IF ~bodyOk THEN [counted |-> FALSE, outcome |-> "parse-error"]
    ELSE [counted |-> TRUE,
          outcome |-> IF Limited(hits + 1) THEN "limited" ELSE "served"]

\* A request of client ip for a route, with a body express.json can parse
\* or not.  Requests past the first RateMax + 1 of a window are not
\* counted further.
Request ==
    /\ \E ip \in ClientIps, route \in HttpRoutes, bodyOk \in BOOLEAN :
        LET m == Middleware(limiter.variant, limiter.hits[ip], bodyOk)
        IN  /\ limiter.arrived[ip] <= RateMax
            /\ limiter' = [limiter EXCEPT
                    !.arrived[ip] = @ + 1,
                    !.hits[ip] = IF m.counted THEN @ + 1 ELSE @,
                    !.served[ip] = IF m.outcome = "served" THEN @ + 1 ELSE @,
                    !.last = [ip |-> ip, route |-> route, outcome |-> m.outcome]]
    /\ UNCHANGED <<nodes, pc, req, res, sent, devices, seen, conns, log, hub, dev>>

\* windowMs has passed since the first request of the IP: its count starts
\* again.
WindowExpires ==
    /\ \E ip \in ClientIps :
        /\ limiter.arrived[ip] > 0
        /\ limiter' = [limiter EXCEPT !.arrived[ip] = 0, !.hits[ip] = 0,
                                      !.served[ip] = 0, !.last = NoRequest]
    /\ UNCHANGED <<nodes, pc, req, res, sent, devices, seen, conns, log, hub, dev>>

NextRate ==
    \/ Request
    \/ WindowExpires

SpecRate == InitRate /\ [][NextRate]_vars



(***************************************************************************)
(* Properties of PUT /api/:user/lights/:id/state.                          *)
(***************************************************************************)
PutDone == req.kind = "PUT state"

\* The request's :id names a device of the hub.
PutResolved == PutDone /\ ControlTarget(nodes, req.deviceId) # NoId

PowerEvent(on) == [topic |-> Str("power"), payload |-> Str(IF on THEN "ON" ELSE "OFF")]

\* C1: a PUT to a resolvable device whose body has the key `on` delivers
\* exactly one event to that device, {power, "ON"} for on:true and
\* {power, "OFF"} for on:false, whatever other keys the body carries.
C1_OnWins ==
    (PutResolved /\ req.body.on # Undefined) =>
        /\ Len(sent) = 1
        /\ sent[1].node = ControlTarget(nodes, req.deviceId)
        /\ sent[1].event = PowerEvent(req.body.on = Bool(TRUE))

C1_Witness ==
    /\ PutResolved
    /\ req.body.on = Bool(FALSE)
    /\ req.body.bri = Num(128)
    /\ req.body.hue # Undefined
    /\ req.body.sat # Undefined
    /\ req.body.xy # Undefined
    /\ req.body.ct # Undefined
    /\ sent = <<[node |-> ControlTarget(nodes, req.deviceId), event |-> PowerEvent(FALSE)]>>

HueKeys == {"on", "bri", "hue", "sat", "xy", "ct"}

\* C2: a successful PUT answers with success entries keyed by the request's
\* own HueState keys and carrying the request's own values.
C2_SuccessEchoesRequest ==
    (PutDone /\ res.status = 200) =>
        \A i \in DOMAIN res.body.arr :
            LET s == res.body.arr[i].success
            IN  /\ s.address.id = req.deviceId
                /\ s.address.attr \in HueKeys
                /\ s.value = req.body[s.address.attr]

OnlyBri(body, bri) ==
    /\ body.bri = bri
    /\ body.on = Undefined
    /\ body.hue = Undefined
    /\ body.sat = Undefined
    /\ body.xy = Undefined
    /\ body.ct = Undefined

\* C3: a PUT {bri:0} to a resolvable device delivers a brightness event with
\* payload 0, no power event, and is not answered as invalid parameters.
C3_BriZeroDelivered ==
    (PutResolved /\ OnlyBri(req.body, Num(0))) =>
        /\ sent = <<[node |-> ControlTarget(nodes, req.deviceId),
                     event |-> [topic |-> Str("brightness"), payload |-> Num(0)]]>>
        /\ res.status # 400

\* (bri ?? 254) / 254
BriOrDefault(body) == Div(IF body.bri = Undefined THEN Num(254) ELSE body.bri, 254)

\* C4: without `on`, hue and sat together give a color event carrying hue,
\* saturation and the brightness derived from bri, also when bri is present;
\* a brightness event needs bri present and hue/sat not both present.
C4_ColorBeforeBrightness ==
    (PutResolved /\ req.body.on = Undefined) =>
        /\ (req.body.hue # Undefined /\ req.body.sat # Undefined) =>
                /\ Len(sent) = 1
                /\ sent[1].event =
                      [topic |-> Str("color"),
                       payload |-> Obj([hue |-> req.body.hue,
                                        saturation |-> Div(req.body.sat, 254),
                                        brightness |-> BriOrDefault(req.body)])]
        /\ \A i \in DOMAIN sent :
              sent[i].event.topic = Str("brightness") =>
                  /\ req.body.bri # Undefined
                  /\ ~(req.body.hue # Undefined /\ req.body.sat # Undefined)

\* The body matches none of on, bri, hue+sat, xy, ct.
NoMapping(body) ==
    /\ body.on = Undefined
    /\ body.bri = Undefined
    /\ ~(body.hue # Undefined /\ body.sat # Undefined)
    /\ body.xy = Undefined
    /\ body.ct = Undefined

\* C5: a PUT to a resolvable device whose body matches no mapping is answered
\* 400 with the one-element Hue error array of type 6, and nothing is
\* delivered.
C5_NoMappingRejected ==
    (PutResolved /\ NoMapping(req.body)) =>
        /\ res.status = 400
        /\ Len(res.body.arr) = 1
        /\ res.body.arr[1].error.type = 6
        /\ sent = <<>>

C5_Witness ==
    /\ PutResolved
    /\ NoMapping(req.body)
    /\ req.body.hue # Undefined
    /\ res.status = 400
    /\ sent = <<>>

(***************************************************************************)
(* Properties of the device registry seen through the Hue routes.          *)
(***************************************************************************)
GetLightDone == req.kind = "GET light"

Bound(ns) == {i \in DOMAIN ns : BoundToHub(ns[i])}

\* The 1-based index of bound device i in a listing pass.
Rank(ns, i) == Cardinality({j \in Bound(ns) : j <= i})

\* C6: for an :id that resolves to no device both GET light and PUT state
\* answer 404 with the one-element array [{error:{type:1, ...}}], and nothing
\* is delivered.
C6_UnknownLightError ==
    ((GetLightDone \/ PutDone) /\ HueMatches(nodes, req.deviceId) = {}) =>
        /\ res.status = 404
        /\ "arr" \in DOMAIN res.body
        /\ Len(res.body.arr) = 1
        /\ res.body.arr[1].error.type = 1
        /\ sent = <<>>

\* C7: the listing of GET /api/:user/lights has one entry per device bound to
\* the hub and its keys are exactly "1".."N".
C7_DenseListing ==
    req.kind = "GET lights" =>
        LET lights == res.body.lights
            N == Cardinality(Bound(nodes))
        IN  /\ Len(lights) = N
            /\ {lights[i].key : i \in DOMAIN lights} = {IndexString(k) : k \in 1..N}

\* The request was resolved to node i of the table.
ResolvedTo(i) ==
    IF GetLightDone
    THEN /\ res.status = 200
         /\ res.body.light.name = nodes[i].name
    ELSE /\ res.status # 404
         /\ \A k \in DOMAIN sent : sent[k].node = nodes[i].id

\* C8: a token that is a bound device's uniqueid or index resolves to that
\* device, and a token that is also another bound device's raw id resolves to
\* the device with that raw id.
C8_ResolveByUniqueIdOrIndex ==
    (GetLightDone \/ PutDone) =>
        LET raw == {j \in Bound(nodes) : nodes[j].id = req.deviceId}
            named == {i \in Bound(nodes) :
                        \/ req.deviceId = UniqueId(nodes[i])
                        \/ req.deviceId = IndexString(Rank(nodes, i))}
        IN  \A i \in (IF raw # {} /\ named # {} THEN raw ELSE named) : ResolvedTo(i)

(***************************************************************************)
(* Properties of POST /alexa.                                              *)
(***************************************************************************)
AlexaDone == req.kind = "POST alexa"

AlexaAnswered ==
    /\ AlexaDone
    /\ res.status = 200
    /\ res.body.event.header.name = "Response"

\* C9: when POST /alexa answers 200 Alexa.Response, exactly one event was
\* delivered, to the node the endpointId names, and
\* context.properties[0].value is that event's payload.
C9_ReportedValueIsDelivered ==
    AlexaAnswered =>
        /\ Len(sent) = 1
        /\ \/ sent[1].node = req.body.endpointId
           \/ \E i \in DOMAIN nodes :
                /\ nodes[i].id = sent[1].node
                /\ nodes[i].endpointId = req.body.endpointId
        /\ res.body.context.properties[1].value = sent[1].event.payload

C9_Witness ==
    /\ AlexaAnswered
    /\ req.body.name = Str("TurnOff")
    /\ Len(sent) = 1
    /\ res.body.context.properties[1].value = Str("OFF")

\* The endpointId of the directive names a device of the hub that the
\* handler resolves: by (endpointId || id) in alexa-iot-hub.js, by node id in
\* part_001.
AlexaResolved ==
    /\ AlexaDone
    /\ req.body.hasDirective
    /\ req.body.hasHeader
    /\ IF req.handler = "part_001"
       THEN \E i \in Bound(nodes) : nodes[i].id = req.body.endpointId
       ELSE AlexaTarget(nodes, req.body.endpointId) # NoId

Delivered(topic, payload) ==
    /\ Len(sent) = 1
    /\ sent[1].event = [topic |-> Str(topic), payload |-> payload]
    /\ res.status = 200
    /\ res.body.event.header.name = "Response"

\* C10: each of the five supported directives, addressed to a resolvable
\* endpoint, carrying its payload object and accepted by the device, is
\* mapped to its event and answered 200 Alexa.Response.
C10_DirectiveMapping ==
    (AlexaResolved /\ req.body.payload # Undefined /\ ~req.sinkThrows) =>
        LET r == req.body
        IN  /\ (r.namespace = Power /\ r.name = Str("TurnOn")) =>
                    Delivered("power", Str("ON"))
            /\ (r.namespace = Power /\ r.name = Str("TurnOff")) =>
                    Delivered("power", Str("OFF"))
            /\ (r.namespace = Brightness /\ r.name = Str("SetBrightness")) =>
                    Delivered("brightness", r.payload.o.brightness)
            /\ (r.namespace = Brightness /\ r.name = Str("AdjustBrightness")) =>
                    Delivered("brightness", r.payload.o.brightnessDelta)
            /\ (r.namespace = Color /\ r.name = Str("SetColor")) =>
                    Delivered("color", r.payload.o.color)

(***************************************************************************)
(* Error handling of POST /alexa.                                          *)
(***************************************************************************)
\* The body carries a directive with a header and a namespace.
WellFormed ==
    /\ AlexaDone
    /\ req.body.hasDirective
    /\ req.body.hasHeader
    /\ Truthy(req.body.namespace)

NonDiscovery == ~(req.body.namespace = Discovery /\ req.body.name = Str("Discover"))

\* The handler answered an Alexa ErrorResponse with this status and type.
IsErrorResponse(status, type) ==
    /\ res.status = status
    /\ "event" \in DOMAIN res.body
    /\ res.body.event.header.name = "ErrorResponse"
    /\ res.body.event.payload.type = type

\* No device bound to the hub has the directive's endpointId as its node id
\* or as its configured endpointId.
NoSuchDevice ==
    ~\E i \in Bound(nodes) :
        \/ nodes[i].id = req.body.endpointId
        \/ nodes[i].endpointId = req.body.endpointId

\* C11: a non-discovery directive whose endpointId names no device of the
\* hub is answered 404 ErrorResponse ENDPOINT_UNREACHABLE and delivers no
\* event.
C11_UnknownEndpointUnreachable ==
    (WellFormed /\ NonDiscovery /\ req.body.endpointId # NoId /\ NoSuchDevice) =>
        /\ IsErrorResponse(404, "ENDPOINT_UNREACHABLE")
        /\ sent = <<>>

\* C12: a body without directive, or a directive without header or without
\* header.namespace, is answered 400 ErrorResponse INVALID_DIRECTIVE and
\* delivers no event.
C12_MalformedIsInvalidDirective ==
    (AlexaDone /\ ~WellFormed) =>
        /\ IsErrorResponse(400, "INVALID_DIRECTIVE")
        /\ sent = <<>>

\* C13: a non-discovery directive without endpoint.endpointId is answered
\* 400 ErrorResponse INVALID_DIRECTIVE "Missing endpointId" and delivers no
\* event.
C13_MissingEndpointId ==
    (WellFormed /\ NonDiscovery /\ req.body.endpointId = NoId) =>
        /\ IsErrorResponse(400, "INVALID_DIRECTIVE")
        /\ res.body.event.payload.message = "Missing endpointId"
        /\ sent = <<>>

\* The five directives the hub supports.
SupportedPairs ==
    {[namespace |-> Power, name |-> Str("TurnOn")],
     [namespace |-> Power, name |-> Str("TurnOff")],
     [namespace |-> Brightness, name |-> Str("SetBrightness")],
     [namespace |-> Brightness, name |-> Str("AdjustBrightness")],
     [namespace |-> Color, name |-> Str("SetColor")]}

UnsupportedPair(r) ==
    /\ Truthy(r.namespace)
    /\ [namespace |-> r.namespace, name |-> r.name] \notin SupportedPairs
    /\ ~(r.namespace = Discovery /\ r.name = Str("Discover"))

CallbackDone == req.kind = "directiveCallback"

\* C14: a directive that is none of the five supported pairs and not
\* Discover, addressed to a device of the hub, delivers no event and is
\* answered 400 INVALID_DIRECTIVE "Unsupported directive" by POST /alexa and
\* with an error by directiveCallback.
C14_UnsupportedRejected ==
    /\ (AlexaResolved /\ UnsupportedPair(req.body)) =>
            /\ IsErrorResponse(400, "INVALID_DIRECTIVE")
            /\ res.body.event.payload.message = "Unsupported directive"
            /\ sent = <<>>
    /\ (/\ CallbackDone
        /\ UnsupportedPair(req.body)
        /\ \E i \in Bound(nodes) : nodes[i].id = req.body.endpointId) =>
            /\ sent = <<>>
            /\ "sendResponse" \in DOMAIN res
            /\ res.sendResponse.error # JNull

\* Processing of the directive raised an exception: the event mapping read a
\* property of a missing payload or header, or the device's receive threw.
ProcessingThrew ==
    /\ AlexaDone
    /\ \/ req.sinkThrows
       \/ /\ WellFormed
          /\ NonDiscovery
          /\ IF req.handler = "part_001"
             THEN /\ getNode(nodes, req.body.endpointId) # NoId
                  /\ Part001Event(req.body) = Throws
             ELSE /\ AlexaTarget(nodes, req.body.endpointId) # NoId
                  /\ AlexaEvent(req.body) = Throws
       \/ /\ req.handler = "part_001"
          /\ req.body.hasDirective
          /\ ~req.body.hasHeader

\* C15: when processing a directive raises an exception, the handler answers
\* 500 ErrorResponse INTERNAL_ERROR and no exception leaves the handler.
C15_ExceptionAnswered500 ==
    ProcessingThrew => IsErrorResponse(500, "INTERNAL_ERROR")

\* C16: every response of POST /alexa carries in event.header the messageId
\* and the correlationToken the request header carried.
C16_HeaderEchoed ==
    (AlexaDone /\ req.body.hasHeader /\ "event" \in DOMAIN res.body) =>
        /\ req.body.messageId # Undefined =>
                res.body.event.header.messageId = req.body.messageId
        /\ req.body.correlationToken # Undefined =>
                res.body.event.header.correlationToken = req.body.correlationToken

\* The endpoints a discovery produced, by POST /alexa or by discoveryCallback.
IsDiscoverResponse ==
    /\ pc = "responded"
    /\ AlexaDone
    /\ res.status = 200
    /\ "event" \in DOMAIN res.body
    /\ res.body.event.header.name = "Discover.Response"

NoAngleBrackets(endpoints) ==
    \A k \in DOMAIN endpoints :
        \A j \in DOMAIN endpoints[k].friendlyName :
            endpoints[k].friendlyName[j] \notin {"<", ">"}

\* C17: no friendlyName of a Discover.Response contains '<' or '>'.
C17_FriendlyNameStripped ==
    /\ IsDiscoverResponse => NoAngleBrackets(res.body.event.payload.endpoints)
    /\ req.kind = "discoveryCallback" => NoAngleBrackets(res.returned.endpoints)

\* C19: when the device's receive fails for a Hue PUT or an Alexa directive,
\* the caller still receives the success response of that request.
C19_SinkFailureSwallowed ==
    ((PutDone \/ AlexaDone) /\ req.sinkThrows) =>
        /\ res.status = 200
        /\ PutDone => res = HueSuccess(req.deviceId, sent[1].event)
        /\ AlexaDone => res.body.event.header.name = "Response"

(***************************************************************************)
(* Discovery and the registry.                                             *)
(***************************************************************************)
\* The endpointId a handler gives to the endpoint of device n.
EndpointIdOf(n, handler) ==
    IF handler = "part_001" \/ n.endpointId = NoId THEN n.id ELSE n.endpointId

\* The endpoints are those of the devices bound to the hub in registry ns,
\* one each, in registry order.
SnapshotOf(endpoints, ns, handler) ==
    /\ Len(endpoints) = Cardinality(Bound(ns))
    /\ \A i \in Bound(ns) :
        endpoints[Rank(ns, i)].endpointId = EndpointIdOf(ns[i], handler)

\* C18: the endpoint list of a Discover.Response is the list of the devices
\* bound to the hub at the moment the handler walked the registry, one
\* endpoint each and none for other hubs' devices, whatever insertions and
\* removals happen around it.
C18_DiscoverSnapshot ==
    IsDiscoverResponse =>
        SnapshotOf(res.body.event.payload.endpoints, seen, req.handler)

\* A device was added or removed between the walk and the response.
C18_Witness ==
    /\ IsDiscoverResponse
    /\ req.handler = "part_001"
    /\ Len(res.body.event.payload.endpoints) = 1
    /\ Cardinality(Bound(nodes)) = 2
    /\ Cardinality(Bound(seen)) = 1

C26_ConfigRoute ==
    (req.kind = "GET api" /\ req.segment = "config") =>
        /\ req.handler = "/api/config"
        /\ {"name", "bridgeid", "ipaddress", "whitelist"} \subseteq DOMAIN res.body
        /\ "lights" \notin DOMAIN res.body

(***************************************************************************)
(* Isolation of hubs.                                                      *)
(***************************************************************************)
\* C29: whatever the request, an event is delivered only to an
\* alexa-iot-device bound to this hub, and a discovery lists only such
\* devices.
C29_HubIsolation ==
    /\ \A k \in DOMAIN sent :
        \E i \in Bound(nodes) : nodes[i].id = sent[k].node
    /\ IsDiscoverResponse =>
        Len(res.body.event.payload.endpoints) = Cardinality(Bound(nodes))
    /\ req.kind = "GET lights" =>
        \A i \in DOMAIN nodes :
            HasProperty(res.body.lights, UniqueId(nodes[i])) =>
                \E j \in Bound(nodes) : UniqueId(nodes[j]) = UniqueId(nodes[i])

(***************************************************************************)
(* The hub keeps no device state.                                          *)
(***************************************************************************)
DefaultState ==
    [on |-> FALSE, bri |-> 254, hue |-> 0, sat |-> 254, xy |-> <<0, 0>>,
     ct |-> 199, reachable |-> TRUE]

\* C27: whatever control requests were served before, every light of
\* GET /api/:user/lights and of GET /api/:user/lights/:id has the default
\* state.
C27_DefaultsAlways ==
    /\ req.kind = "GET lights" =>
        \A k \in DOMAIN res.body.lights :
            res.body.lights[k].value.state = DefaultState
    /\ (req.kind = "GET light" /\ res.status = 200) =>
        res.body.light.state = DefaultState

\* The device was switched on over both the Hue facade and Alexa, and a
\* probe of it afterwards still shows the defaults.
C27_Witness ==
    /\ Len(log) = 2
    /\ log[1].event = PowerEvent(TRUE)
    /\ log[2].event = PowerEvent(TRUE)
    /\ req.kind = "GET light"
    /\ res.status = 200
    /\ res.body.light.state.on = FALSE

(***************************************************************************)
(* The device node.                                                        *)
(***************************************************************************)
\* The device has no name, no hub, or a hub id that names no deployed
\* alexa-iot-hub node.
Misconfigured(config) ==
    \/ config.name = ""
    \/ config.hub = NoId
    \/ DeployedType(config.hub) # "alexa-iot-hub"

C30_DoneExactlyOnce ==
    (dev.phase = "ready" /\ dev.handler /\ dev.received) =>
        /\ dev.done = 1
        /\ Len(dev.output) <= 1

\* The target's receive threw after the message was sent on the output.
C30_Witness ==
    /\ dev.phase = "ready"
    /\ dev.received
    /\ dev.receiveThrows
    /\ Len(dev.output) = 1
    /\ Len(dev.forwarded) = 1
    /\ dev.status.fill = "red"
    /\ dev.done = 1

(***************************************************************************)
(* The life of the hub.                                                    *)
(***************************************************************************)
\* C21: when the bind of the TCP listener or of the SSDP socket has failed,
\* the hub is closed with a red status, and is not green.
C21_BindFailureRed ==
    (hub.phase # "serving" /\ (hub.tcp = "failed" \/ hub.ssdp = "failed")) =>
        /\ hub.status.fill = "red"
        /\ hub.phase = "closed"

\* C22: whenever the status is green, the TCP listener is bound and so is
\* the SSDP socket of a hub that has one.
C22_GreenMeansBothBound ==
    (hub.phase # "serving" /\ hub.status.fill = "green") =>
        /\ hub.tcp = "bound"
        /\ hub.ssdp # "none" => hub.ssdp = "bound"

\* C23: when the close of the hub has been signalled, the HTTP server has
\* finished closing and the SSDP socket is released.
C23_ClosedAfterRelease ==
    (hub.phase # "serving" /\ hub.closedSignalled) =>
        /\ hub.tcp = "closed"
        /\ hub.ssdp \notin {"binding", "bound"}

\* The Hue-emulating hub is up with its HTTP server bound.
HueListening ==
    /\ hub.phase = "up"
    /\ hub.variant = "hue"
    /\ hub.tcp = "bound"

\* C24: from every state in which the Hue-emulating hub is listening, a
\* further round of ssdp:alive advertisements follows, or the hub closes.
C24_AliveAdvertised ==
    \A n \in 0..(MaxAds - 1) :
        (HueListening /\ hub.ads = n) ~> (hub.ads > n \/ hub.phase # "up")

(***************************************************************************)
(* Rate limiting.                                                          *)
(***************************************************************************)
\* C25: in one window at most RateMax requests of an IP reach a route, and
\* every request of the IP after its first RateMax in the window, whatever
\* its route and body, is rejected by the limiter; a request is rejected
\* only on the count of its own IP.
C25_RateLimitPerIp ==
    limiter.phase # "unlimited" =>
        /\ \A ip \in ClientIps : limiter.served[ip] <= RateMax
        /\ limiter.last.outcome # "none" =>
            /\ limiter.arrived[limiter.last.ip] > RateMax =>
                    limiter.last.outcome = "limited"
            /\ limiter.last.outcome = "limited" =>
                    limiter.hits[limiter.last.ip] > RateMax

====
